---------------------------- MODULE Spec2Model ----------------------------
(***************************************************************************)
(* StripAlerts: the tip-to-alert dispatcher and the timed animation state  *)
(* machine of the LED controller, as two cooperating asyncio tasks.        *)
(*                                                                         *)
(* The repository holds three iterations of the dispatcher                 *)
(* (event_handler.py, main.py, event_processor.py); the iteration that     *)
(* runs is the state variable `variant`, fixed at start-up.                *)
(*                                                                         *)
(* Strings are sequences of one-character strings, so that the string      *)
(* operations of the code (replace, startswith, upper) are computed        *)
(* character by character.                                                 *)
(***************************************************************************)
EXTENDS Integers, Sequences, FiniteSets, TLC

(***************************************************************************)
(* Bounds of the model.                                                    *)
(***************************************************************************)
\* the clock runs from StartTime to MaxTime (seconds)
MaxTime == 5
\* alert and hold durations are drawn from 1..MaxAlertDuration, 1..MaxColorDuration
MaxAlertDuration == 2
MaxColorDuration == 2
\* a message is the concatenation of at most MaxParts pieces
MaxParts == 2
\* events per yielded batch
MaxBatch == 1
\* hardware errors per run
MaxFaults == 1
\* the next urls a response can name are 1..MaxUrl
MaxUrl == 2
\* consecutive failed requests
MaxWaits == 6
\* raw records per yielded batch
MaxRecords == 2
\* shutdown signals per run
MaxSignals == 2
\* clicks on the start and stop buttons of a front-end
MaxClicks == 5
\* events the mock server generates, and poll requests it answers
MaxEvents == 2
MaxRequests == 2

(***************************************************************************)
(* Program constants.                                                      *)
(***************************************************************************)
TOKENS_FOR_COLOR_ALERT == 35
ALERT_TOKENS == 35
COLOR_ALERT_TOKENS == 35
\* app_config.py, read by event_poller.py
INITIAL_RETRY_DELAY == 5
RETRY_FACTOR == 2
MAX_RETRY_DELAY == 60
\* main.py
Main_INITIAL_RETRY_DELAY == 2
Main_RETRY_FACTOR == 2
Main_MAX_RETRY_DELAY == 60
\* time.time() is seconds since the epoch: positive
StartTime == 1
\* color_set_time = None
NoTime == -1
None == "None"

(***************************************************************************)
(* Strings.                                                                *)
(***************************************************************************)
LowerChars ==
    << "a","b","c","d","e","f","g","h","i","j","k","l","m",
       "n","o","p","q","r","s","t","u","v","w","x","y","z" >>
UpperChars ==
    << "A","B","C","D","E","F","G","H","I","J","K","L","M",
       "N","O","P","Q","R","S","T","U","V","W","X","Y","Z" >>

\* str.upper() on one character
UpperChar(c) ==
    IF \E i \in 1..26 : LowerChars[i] = c
    THEN UpperChars[CHOOSE i \in 1..26 : LowerChars[i] = c]
    ELSE c

\* mutant: the string is looked up as it was written
str_upper_as_written(s) == s

\* str.upper()
str_upper(s) == [i \in 1..Len(s) |-> UpperChar(s[i])]

\* str.startswith(prefix)
str_startswith(s, prefix) ==
    /\ Len(s) >= Len(prefix)
    /\ SubSeq(s, 1, Len(prefix)) = prefix

\* str.replace(old, ""): the non-overlapping occurrences of old, found left
\* to right in one pass, are removed
RECURSIVE str_remove(_, _)
str_remove(s, old) ==
    IF Len(s) < Len(old) \/ Len(old) = 0 THEN s
    ELSE IF SubSeq(s, 1, Len(old)) = old
         THEN str_remove(SubSeq(s, Len(old) + 1, Len(s)), old)
         ELSE <<Head(s)>> \o str_remove(Tail(s), old)

\* "-- Select One --"
Placeholder ==
    << "-","-"," ","S","e","l","e","c","t"," ","O","n","e"," ","-","-" >>
\* " | "
Separator == << " ","|"," " >>
\* "-- Select One -- | "
PlaceholderPrefix == Placeholder \o Separator

(***************************************************************************)
(* AlertColor: the enumeration and its lookup by name.                     *)
(***************************************************************************)
AlertColor ==
    { "RED", "ORANGE", "YELLOW", "GREEN", "BLUE", "INDIGO", "VIOLET", "BLACK" }

\* the member's name, as a string of characters
MemberName(c) ==
    CASE c = "RED"    -> << "R","E","D" >>
      [] c = "ORANGE" -> << "O","R","A","N","G","E" >>
      [] c = "YELLOW" -> << "Y","E","L","L","O","W" >>
      [] c = "GREEN"  -> << "G","R","E","E","N" >>
      [] c = "BLUE"   -> << "B","L","U","E" >>
      [] c = "INDIGO" -> << "I","N","D","I","G","O" >>
      [] c = "VIOLET" -> << "V","I","O","L","E","T" >>
      [] c = "BLACK"  -> << "B","L","A","C","K" >>

\* AlertColor.__members__.get(key, None)
members_get(key) ==
    IF \E c \in AlertColor : MemberName(c) = key
    THEN CHOOSE c \in AlertColor : MemberName(c) = key
    ELSE None

\* mutant: the name need only start the string
from_string_prefix(color_str) ==
    IF \E c \in AlertColor : str_startswith(str_upper(color_str), MemberName(c))
    THEN CHOOSE c \in AlertColor :
            str_startswith(str_upper(color_str), MemberName(c))
    ELSE None

\* AlertColor.from_string (alert_colors_enum.py)
from_string(color_str) == members_get(str_upper(color_str))

\* AlertColors.from_string of the led_controller event_processor.py imports
AlertColors_from_string(color_str) == members_get(str_upper(color_str))

\* an AlertColor member is truthy (an Enum without __bool__); None is not
Truthy(color) == color # None


(***************************************************************************)
(* Message cleaning, one definition per iteration of the dispatcher.       *)
(***************************************************************************)
\* EventHandler._clean_message (event_handler.py)
EventHandler_clean_message(message) ==
    str_remove(str_remove(str_remove(message, PlaceholderPrefix),
                          Placeholder),
               Separator)

\* mutant: the prefix is not stripped, only the bare placeholder is
Main_clean_message_exact_only(message) ==
    IF message = Placeholder THEN << >> ELSE message

\* EventProcessor.clean_message (main.py)
Main_clean_message(message) ==
    IF str_startswith(message, PlaceholderPrefix)
    THEN SubSeq(message, Len(PlaceholderPrefix) + 1, Len(message))
    ELSE IF message = Placeholder THEN << >>
    ELSE message

\* EventProcessor.clean_message (event_processor.py)
EventProcessor_clean_message(message) ==
    str_remove(str_remove(message, PlaceholderPrefix), Placeholder)

(***************************************************************************)
(* The decision of process_tip: the color of the color alert to trigger,   *)
(* or None for a normal alert.                                             *)
(***************************************************************************)
\* mutant: the token count is not compared with the threshold
EventHandler_decision_no_threshold(tokens, message) ==
    from_string(EventHandler_clean_message(message))

\* EventHandler._process_tip: tokens >= TOKENS_FOR_COLOR_ALERT and color
EventHandler_decision(tokens, message) ==
    LET color == from_string(EventHandler_clean_message(message))
    IN  IF tokens >= TOKENS_FOR_COLOR_ALERT /\ Truthy(color)
        THEN color ELSE None

\* main.py EventProcessor.process_tip:
\* tokens == ALERT_TOKENS and message.upper() in [color.name ...]
Main_decision(tokens, message) ==
    LET upper == str_upper(Main_clean_message(message))
    IN  IF tokens = ALERT_TOKENS /\ (\E c \in AlertColor : MemberName(c) = upper)
        THEN CHOOSE c \in AlertColor : MemberName(c) = upper
        ELSE None

\* event_processor.py EventProcessor.process_tip:
\* tokens == COLOR_ALERT_TOKENS and color
EventProcessor_decision(tokens, message) ==
    LET color == AlertColors_from_string(EventProcessor_clean_message(message))
    IN  IF tokens = COLOR_ALERT_TOKENS /\ Truthy(color)
        THEN color ELSE None

Variants == { "event_handler", "main", "event_processor" }

clean_message(v, message) ==
    CASE v = "event_handler"   -> EventHandler_clean_message(message)
      [] v = "main"            -> Main_clean_message(message)
      [] v = "event_processor" -> EventProcessor_clean_message(message)

decision(v, tokens, message) ==
    CASE v = "event_handler"   -> EventHandler_decision(tokens, message)
      [] v = "main"            -> Main_decision(tokens, message)
      [] v = "event_processor" -> EventProcessor_decision(tokens, message)

\* event_handler.py catches every exception of _process_tip and goes on with
\* the next event; main.py and event_processor.py let it end process_events
SwallowsErrors(v) == v = "event_handler"

(***************************************************************************)
(* Inputs.                                                                 *)
(***************************************************************************)
Word_red   == << "r","e","d" >>
Word_green == << "g","r","e","e","n" >>
Word_BlaCk == << "B","l","a","C","k" >>
Word_x     == << "x" >>
Space      == << " " >>

Pieces ==
    { PlaceholderPrefix, Placeholder, Separator,
      Word_red, Word_green, Word_BlaCk, Word_x, Space }

RECURSIVE Concat(_)
Concat(parts) ==
    IF parts = << >> THEN << >> ELSE Head(parts) \o Concat(Tail(parts))

\* every concatenation of at most MaxParts pieces, the empty message included
AllMessages ==
    { Concat(parts) : parts \in UNION { [1..n -> Pieces] : n \in 0..MaxParts } }

TokenValues ==
    { 0, 10, TOKENS_FOR_COLOR_ALERT - 1, TOKENS_FOR_COLOR_ALERT,
      TOKENS_FOR_COLOR_ALERT + 1 }

Tip(tokens, message) ==
    [method |-> "tip", tokens |-> tokens, message |-> message]

NoEvent == [method |-> "none", tokens |-> 0, message |-> << >>]

\* the events of the whole-system specification
SystemEvents ==
    { Tip(TOKENS_FOR_COLOR_ALERT, Word_red),
      Tip(TOKENS_FOR_COLOR_ALERT, Word_green),
      Tip(TOKENS_FOR_COLOR_ALERT - 1, Word_red),
      [method |-> "follow", tokens |-> 0, message |-> << >>] }

\* the events of the dispatcher specification
AllEvents == { Tip(t, m) : t \in TokenValues, m \in AllMessages }

(***************************************************************************)
(* Animations, by name.                                                    *)
(***************************************************************************)
Rainbow  == << "rainbow" >>
Sparkle  == << "sparkle" >>
Pulse(c) == << c, "pulse" >>
Solid(c) == << c >>
\* the strip after animations.freeze() and pixels.fill((0, 0, 0))
Cleared == << "cleared" >>

(***************************************************************************)
(* State.                                                                  *)
(***************************************************************************)
VARIABLES
    variant,            \* the iteration of the dispatcher that runs
    ALERT_DURATION,     \* configuration: seconds an alert animation is held
    COLOR_DURATION,     \* configuration: seconds a color is held
    now,                \* time.time()
    ticked,             \* the animation loop has run since the clock moved
    current_color,      \* LEDController.current_color
    color_set_time,     \* LEDController.color_set_time
    current_animation,  \* LEDController.animations.current_animation.name
    animation_task,     \* the task of run_animation_loop: running | failed
    pc,                 \* the task of process_events:
                        \*   idle | normal_sleep | color_sleep | failed
    previous_state,     \* local of trigger_normal_alert
    color,              \* argument of trigger_color_alert
    wake,               \* when the asyncio.sleep of the alert ends
    batch,              \* the events of the yielded batch not yet processed
    event,              \* the tip event being processed, NoEvent when none is
    lastCall,           \* history: the last alert operation invoked
    lastColorCall,      \* history: the last trigger_color_alert invoked
    faults              \* history: hardware errors raised so far

\* the event poller
VARIABLES
    poller,             \* the iteration of the poller that runs
    url,                \* local of poll_events / fetch_events
    retry_delay,        \* EventPoller.retry_delay
    poller_pc,          \* the generator of the poller: get | sleep | yield
    request,            \* history: the last request issued
    response,           \* the last response received
    waits,              \* history: the delays slept since the last success
    yields              \* history: batches yielded for the last response

poller_vars ==
    << poller, url, retry_delay, poller_pc, request, response, waits, yields >>

\* the application: start-up, signals and shutdown
VARIABLES
    app,                \* the iteration of the application that runs
    shutdown_event,     \* StripAlertsApp.shutdown_event.is_set()
    main_pc,            \* the coroutine that waits for the end of the run:
                        \*   wait | gather | finally | sleep0 | exited
    stoppers,           \* the calls of stop_service, each one at
                        \*   created | await_animation | await_processing |
                        \*   sleep0 | done | failed
    releases,           \* history: runs of LEDController.stop_animation
    signals             \* history: shutdown signals delivered so far

app_vars == << app, shutdown_event, main_pc, stoppers, releases, signals >>

\* the control front-ends and the mock API server
VARIABLES
    frontend,           \* the front-end that runs
    ui_flag,            \* storage["app_running"] / StripAlertsController.is_running
    ui_ref,             \* app_instance / app / process: NoRef for None, or
                        \*   the index of a service
    services,           \* the app instances or subprocesses created, each
                        \*   one running | stopping | stopped
    ui_tasks,           \* the click handlers suspended in an await
    clicks,             \* history: clicks handled so far
    latest_event,       \* EventManager.latest_event, NoRef for None
    generated,          \* history: events generated so far
    handlers            \* the request handlers of the mock server

tool_vars ==
    << frontend, ui_flag, ui_ref, services, ui_tasks, clicks, latest_event,
       generated, handlers >>

\* the state outside the dispatcher and the LED controller
others == << poller_vars, app_vars, tool_vars >>

vars ==
    << variant, ALERT_DURATION, COLOR_DURATION, now, ticked, current_color,
       color_set_time, current_animation, animation_task, pc, previous_state,
       color, wake, batch, event, lastCall, lastColorCall, faults, others >>

config == << variant, ALERT_DURATION, COLOR_DURATION >>
led    == << current_color, color_set_time, current_animation >>
locals == << previous_state, color, wake >>

history == << lastCall, lastColorCall >>

NoCall ==
    [op |-> "none", time |-> NoTime, held_before |-> None,
     anim_before |-> Rainbow]

NoColorCall == [color |-> None, time |-> NoTime, held_before |-> None]

\* both tasks created, no event received yet
InitTasks ==
    /\ ticked = FALSE
    /\ animation_task = "running"
    /\ pc = "idle"
    /\ previous_state = Rainbow
    /\ color = None
    /\ wake = NoTime
    /\ event = NoEvent
    /\ lastCall = NoCall
    /\ faults = 0

\* LEDController.__init__
InitController ==
    /\ now = StartTime
    /\ current_color = None
    /\ color_set_time = NoTime
    /\ current_animation = Rainbow
    /\ lastColorCall = NoColorCall

\* the controller after a color alert of held, triggered at StartTime
HoldingController(held) ==
    /\ now = StartTime + ALERT_DURATION
    /\ current_color = held
    /\ color_set_time = StartTime
    /\ current_animation = Solid(held)
    /\ lastColorCall =
           [color |-> held, time |-> StartTime, held_before |-> None]

\* the iterations of the poller: event_poller.py and the poller of main.py
Pollers == { "event_poller", "main" }

\* strip_alerts.py and stripalerts_app.py import event_poller.py, main.py
\* holds its own poller
PollerOf(v) == IF v = "main" THEN "main" ELSE "event_poller"

InitialDelay(p) ==
    IF p = "main" THEN Main_INITIAL_RETRY_DELAY ELSE INITIAL_RETRY_DELAY
RetryFactor(p) == IF p = "main" THEN Main_RETRY_FACTOR ELSE RETRY_FACTOR
MaxDelay(p) == IF p = "main" THEN Main_MAX_RETRY_DELAY ELSE MAX_RETRY_DELAY

\* self.base_url; the urls that responses name are 1..MaxUrl
BaseUrl == 0
NextUrls == 1..MaxUrl

\* response.status; ClientError stands for a request that raised
\* aiohttp.ClientError instead of returning a response
ClientError == 0
Statuses == { 200, 401, 404, 500, 503 }

NoRequest == [url |-> BaseUrl, retry_delay |-> 0]
NoResponse == [status |-> ClientError, nextUrl |-> BaseUrl, events |-> << >>]

\* EventPoller.__init__ and the entry of the generator
InitPoller ==
    /\ poller = PollerOf(variant)
    /\ url = BaseUrl
    /\ retry_delay = InitialDelay(poller)
    /\ poller_pc = "get"
    /\ request = NoRequest
    /\ response = NoResponse
    /\ waits = << >>
    /\ yields = 0

\* the iterations of the application: strip_alerts.py, stripalerts_app.py
\* and main() of main.py
Apps == { "strip_alerts", "stripalerts_app", "main" }

\* strip_alerts.py and stripalerts_app.py import event_handler.py, main.py
\* holds its own EventProcessor
DispatcherOf(a) == IF a = "main" THEN "main" ELSE "event_handler"
AppOf(v) == IF v = "main" THEN "main" ELSE "strip_alerts"

\* both tasks are created and the starting coroutine waits: on
\* shutdown_event.wait() in run_tasks / start_service, on gather in main()
InitApplication(a) ==
    /\ app = a
    /\ shutdown_event = FALSE
    /\ main_pc = IF a = "main" THEN "gather" ELSE "wait"
    /\ stoppers = << >>
    /\ releases = 0
    /\ signals = 0

\* the front-ends: ControlFunctions of src/web_ui.py, CommandRunner of the
\* web_ui.py above it, StripAlertsController of frontend.py
Frontends == { "web_ui", "command_runner", "frontend" }

\* None, for a reference to a service or to an event
NoRef == 0

\* the page is built: no instance, no subprocess, no handler under way
InitFrontend(f) ==
    /\ frontend = f
    /\ ui_flag = FALSE
    /\ ui_ref = NoRef
    /\ services = << >>
    /\ ui_tasks = << >>
    /\ clicks = 0

\* EventManager.__init__, no request has arrived
InitMock ==
    /\ latest_event = NoRef
    /\ generated = 0
    /\ handlers = [r \in 1..MaxRequests |-> [pc |-> "idle", event |-> NoRef]]

InitTools == InitFrontend("frontend") /\ InitMock

InitOthers ==
    /\ InitPoller
    /\ InitApplication(AppOf(variant))
    /\ InitTools

Init ==
    /\ variant \in Variants
    /\ ALERT_DURATION \in 1..MaxAlertDuration
    /\ COLOR_DURATION \in 1..MaxColorDuration
    /\ batch = << >>
    /\ InitTasks
    /\ InitController
    /\ InitOthers

\* one tip event is pending, under any iteration of the dispatcher, with no
\* color held or with a color held
InitDispatch ==
    /\ variant \in Variants
    /\ ALERT_DURATION = 1
    /\ COLOR_DURATION = MaxColorDuration
    /\ batch \in { << e >> : e \in AllEvents }
    /\ InitTasks
    /\ \/ InitController
       \/ HoldingController("BLUE")
    /\ InitOthers

(***************************************************************************)
(* Scheduling: one cooperative event loop.  The task of process_events     *)
(* runs without suspension from the yield of a batch to its next await.    *)
(***************************************************************************)
DispatcherRunning == pc = "idle" /\ batch # << >>

\* the outcomes of a call of the LED hardware: TRUE returns, FALSE raises
HwOutcomes == IF faults < MaxFaults THEN { TRUE, FALSE } ELSE { TRUE }

\* where an exception of an alert operation leaves the task of process_events
AfterError == IF SwallowsErrors(variant) THEN "idle" ELSE "failed"

(***************************************************************************)
(* LEDController.                                                          *)
(***************************************************************************)
\* mutant: the hold ends when COLOR_DURATION is reached, not when exceeded
Expired_not_strict(held, set_time, t) ==
    /\ Truthy(held)
    /\ set_time # NoTime
    /\ t - set_time >= COLOR_DURATION

\* the expiry test of run_animation_loop
Expired(held, set_time, t) ==
    /\ Truthy(held)
    /\ IF variant = "main" THEN set_time # NoTime
                           ELSE set_time # NoTime /\ set_time # 0
    /\ t - set_time > COLOR_DURATION

\* mutant: the animation loop waits for the alert operation to return
run_animation_loop_blocked_by_alert ==
    /\ animation_task = "running"
    /\ ~DispatcherRunning
    /\ pc \notin { "normal_sleep", "color_sleep" }
    /\ \E activate_ok \in HwOutcomes, animate_ok \in HwOutcomes :
         /\ (~activate_ok) => Expired(current_color, color_set_time, now)
         /\ (~activate_ok) => animate_ok
         /\ IF Expired(current_color, color_set_time, now)
            THEN /\ current_color' = None
                 /\ current_animation' =
                        IF activate_ok THEN Rainbow ELSE current_animation
            ELSE UNCHANGED << current_color, current_animation >>
         /\ animation_task' =
                IF activate_ok /\ animate_ok THEN "running" ELSE "failed"
         /\ faults' = IF activate_ok /\ animate_ok THEN faults ELSE faults + 1
    /\ ticked' = TRUE
    /\ UNCHANGED << others, config, now, color_set_time, pc, locals, batch, event,
                    history >>

\* mutant: the iteration is suspended between the clearing of the held color
\* and the activation of rainbow
run_animation_loop_suspended_after_clear ==
    /\ animation_task = "running"
    /\ ~DispatcherRunning
    /\ IF Expired(current_color, color_set_time, now)
       THEN current_color' = None
       ELSE current_color' = current_color
    /\ ticked' = TRUE
    /\ UNCHANGED << others, config, now, color_set_time, current_animation,
                    animation_task, faults, pc, locals, batch, event,
                    history >>

\* one iteration of run_animation_loop, up to its asyncio.sleep
run_animation_loop ==
    /\ animation_task = "running"
    /\ ~DispatcherRunning
    /\ \E activate_ok \in HwOutcomes, animate_ok \in HwOutcomes :
         /\ (~activate_ok) => Expired(current_color, color_set_time, now)
         /\ (~activate_ok) => animate_ok
         /\ IF Expired(current_color, color_set_time, now)
            THEN /\ current_color' = None
                 /\ current_animation' =
                        IF activate_ok THEN Rainbow ELSE current_animation
            ELSE UNCHANGED << current_color, current_animation >>
         /\ animation_task' =
                IF activate_ok /\ animate_ok THEN "running" ELSE "failed"
         /\ faults' = IF activate_ok /\ animate_ok THEN faults ELSE faults + 1
    /\ ticked' = TRUE
    /\ UNCHANGED << others, config, now, color_set_time, pc, locals, batch, event,
                    history >>

\* mutant: the normal alert restarts the time of a color that is held
trigger_normal_alert_restart_hold(ok) ==
    /\ previous_state' = current_animation
    /\ current_animation' = IF ok THEN Sparkle ELSE current_animation
    /\ pc' = IF ok THEN "normal_sleep" ELSE AfterError
    /\ wake' = IF ok THEN now + ALERT_DURATION ELSE wake
    /\ color_set_time' = IF current_color # None THEN now ELSE color_set_time
    /\ UNCHANGED << current_color, color >>

\* trigger_normal_alert, up to its asyncio.sleep
trigger_normal_alert(ok) ==
    /\ previous_state' = current_animation
    /\ current_animation' = IF ok THEN Sparkle ELSE current_animation
    /\ pc' = IF ok THEN "normal_sleep" ELSE AfterError
    /\ wake' = IF ok THEN now + ALERT_DURATION ELSE wake
    /\ UNCHANGED << current_color, color_set_time, color >>

\* mutant: the timestamp of a color already held is kept
trigger_color_alert_keep_timer(c, ok) ==
    /\ current_color' = c
    /\ color_set_time' = IF current_color # None THEN color_set_time ELSE now
    /\ color' = c
    /\ current_animation' = IF ok THEN Pulse(c) ELSE current_animation
    /\ pc' = IF ok THEN "color_sleep" ELSE AfterError
    /\ wake' = IF ok THEN now + ALERT_DURATION ELSE wake
    /\ UNCHANGED previous_state

\* trigger_color_alert, up to its asyncio.sleep
trigger_color_alert(c, ok) ==
    /\ current_color' = c
    /\ color_set_time' = now
    /\ color' = c
    /\ current_animation' = IF ok THEN Pulse(c) ELSE current_animation
    /\ pc' = IF ok THEN "color_sleep" ELSE AfterError
    /\ wake' = IF ok THEN now + ALERT_DURATION ELSE wake
    /\ UNCHANGED previous_state

\* mutant: the idle animation is activated, not the remembered one
trigger_normal_alert_resume_to_rainbow ==
    /\ pc = "normal_sleep"
    /\ now >= wake
    /\ \E ok \in HwOutcomes :
         /\ current_animation' = IF ok THEN Rainbow ELSE current_animation
         /\ pc' = IF ok THEN "idle" ELSE AfterError
         /\ faults' = IF ok THEN faults ELSE faults + 1
    /\ event' = NoEvent
    /\ UNCHANGED << others, config, now, ticked, current_color, color_set_time,
                    animation_task, locals, batch, history >>

\* trigger_normal_alert, from its asyncio.sleep to its return
trigger_normal_alert_resume ==
    /\ pc = "normal_sleep"
    /\ now >= wake
    /\ \E ok \in HwOutcomes :
         /\ current_animation' = IF ok THEN previous_state ELSE current_animation
         /\ pc' = IF ok THEN "idle" ELSE AfterError
         /\ faults' = IF ok THEN faults ELSE faults + 1
    /\ event' = NoEvent
    /\ UNCHANGED << others, config, now, ticked, current_color, color_set_time,
                    animation_task, locals, batch, history >>

\* trigger_color_alert, from its asyncio.sleep to its return
trigger_color_alert_resume ==
    /\ pc = "color_sleep"
    /\ now >= wake
    /\ \E ok \in HwOutcomes :
         /\ current_animation' = IF ok THEN Solid(color) ELSE current_animation
         /\ pc' = IF ok THEN "idle" ELSE AfterError
         /\ faults' = IF ok THEN faults ELSE faults + 1
    /\ event' = NoEvent
    /\ UNCHANGED << others, config, now, ticked, current_color, color_set_time,
                    animation_task, locals, batch, history >>

(***************************************************************************)
(* The dispatcher.                                                         *)
(***************************************************************************)
\* mutant: a tip that names no color is answered with no alert operation
process_tip_color_only(e) ==
    LET c == decision(variant, e.tokens, e.message)
    IN  IF c # None
        THEN \E ok \in HwOutcomes :
               /\ trigger_color_alert(c, ok)
               /\ lastCall' =
                      [op |-> "color", time |-> now,
                       held_before |-> current_color,
                       anim_before |-> current_animation]
               /\ lastColorCall' =
                      [color |-> c, time |-> now,
                       held_before |-> current_color]
               /\ event' = IF ok THEN e ELSE NoEvent
               /\ faults' = IF ok THEN faults ELSE faults + 1
        ELSE UNCHANGED << led, pc, locals, event, history, faults >>

\* process_tip: the decision and the alert operation, up to its first await
process_tip(e) ==
    \E ok \in HwOutcomes :
       LET c == decision(variant, e.tokens, e.message)
       IN  /\ IF c # None THEN trigger_color_alert(c, ok)
                          ELSE trigger_normal_alert(ok)
           /\ lastCall' =
                  [op |-> IF c # None THEN "color" ELSE "normal",
                   time |-> now, held_before |-> current_color,
                   anim_before |-> current_animation]
           /\ lastColorCall' =
                  IF c # None
                  THEN [color |-> c, time |-> now,
                        held_before |-> current_color]
                  ELSE lastColorCall
           /\ event' = IF ok THEN e ELSE NoEvent
           /\ faults' = IF ok THEN faults ELSE faults + 1

\* the body of the loop of process_events, for the next event of the batch
process_event ==
    /\ pc = "idle"
    /\ batch # << >>
    /\ batch' = Tail(batch)
    /\ IF Head(batch).method = "tip"
       THEN process_tip(Head(batch))
       ELSE UNCHANGED << led, pc, locals, event, history, faults >>
    /\ UNCHANGED << others, config, now, ticked, animation_task >>

\* mutant: the poller yields its next batch while an alert operation pauses
poll_events_during_pause ==
    /\ pc \in { "idle", "normal_sleep", "color_sleep" }
    /\ batch = << >>
    /\ batch' \in UNION { [1..n -> SystemEvents] : n \in 1..MaxBatch }
    /\ UNCHANGED << others, config, now, ticked, led, animation_task, pc, locals,
                    event, history, faults >>

\* the poller yields a batch of events to the loop of process_events
poll_events ==
    /\ pc = "idle"
    /\ batch = << >>
    /\ batch' \in UNION { [1..n -> SystemEvents] : n \in 1..MaxBatch }
    /\ UNCHANGED << others, config, now, ticked, led, animation_task, pc, locals,
                    event, history, faults >>

(***************************************************************************)
(* Time.  A sleeping task wakes when its sleep ends, and the animation     *)
(* loop (asyncio.sleep(ANIMATION_SPEED), 10 ms) runs within every second.  *)
(***************************************************************************)
Advance ==
    /\ now < MaxTime
    /\ ~DispatcherRunning
    /\ pc \in { "normal_sleep", "color_sleep" } => now < wake
    /\ animation_task = "running" => ticked
    /\ now' = now + 1
    /\ ticked' = FALSE
    /\ UNCHANGED << others, config, led, animation_task, pc, locals, batch, event,
                    history, faults >>

Next ==
    \/ poll_events
    \/ process_event
    \/ trigger_normal_alert_resume
    \/ trigger_color_alert_resume
    \/ run_animation_loop
    \/ Advance

Spec == Init /\ [][Next]_vars

\* the poller has yielded a batch of several events, all of them pending
InitOrder ==
    /\ variant \in Variants
    /\ ALERT_DURATION = 1
    /\ COLOR_DURATION = 1
    /\ batch \in [1..MaxRecords -> SystemEvents]
    /\ InitTasks
    /\ InitController
    /\ InitOthers

SpecOrder == InitOrder /\ [][Next]_vars


NextDispatch ==
    \/ process_event
    \/ trigger_normal_alert_resume
    \/ trigger_color_alert_resume
    \/ run_animation_loop
    \/ Advance

SpecDispatch == InitDispatch /\ [][NextDispatch]_vars

\* one event is pending, with no color held or with a color held whose hold
\* ends together with the alert of the pending event
InitTick ==
    /\ variant \in Variants
    /\ ALERT_DURATION = 1
    /\ COLOR_DURATION = 1
    /\ batch \in { << e >> : e \in SystemEvents }
    /\ InitTasks
    /\ \/ InitController
       \/ HoldingController("BLUE")
    /\ InitOthers

\* the event loop runs its ready tasks in turn: the task of process_events
\* runs on to its next await, and the animation loop, ready again 10 ms after
\* each of its steps, runs whenever the other task is suspended.  Nothing
\* forces a response of the API, the end of a sleep or the passing of time.
SpecTickFair ==
    /\ InitTick
    /\ [][NextDispatch]_vars
    /\ WF_vars(process_event)
    /\ SF_vars(run_animation_loop)

(***************************************************************************)
(* The event poller: a long-poll loop with backoff.  A step runs the       *)
(* generator from one suspension (the request, the sleep of handle_error,  *)
(* the yield) to the next.                                                 *)
(***************************************************************************)
Min(a, b) == IF a <= b THEN a ELSE b

Batches == UNION { [1..n -> SystemEvents] : n \in 0..MaxBatch }

\* what a request can come back with; the body of a failure is not read
Responses ==
    [status : { 200 }, nextUrl : NextUrls, events : Batches]
    \cup [status : (Statuses \ { 200 }) \cup { ClientError },
          nextUrl : NextUrls, events : { << >> }]

PossibleResponses ==
    IF Len(waits) < MaxWaits THEN Responses
    ELSE { r \in Responses : r.status = 200 }

\* event_poller.py, handle_error up to its sleep
EventPoller_handle_error(server_error) ==
    /\ retry_delay' =
           IF server_error THEN INITIAL_RETRY_DELAY
           ELSE Min(retry_delay * RETRY_FACTOR, MAX_RETRY_DELAY)
    /\ waits' = Append(waits, retry_delay')
    /\ poller_pc' = "sleep"

\* poll_events with the url taken from the body of a client-side failure
EventPoller_poll_events_advance_on_error ==
    /\ poller = "event_poller"
    /\ poller_pc = "get"
    /\ \E r \in PossibleResponses :
          /\ request' = [url |-> url, retry_delay |-> retry_delay]
          /\ response' = r
          /\ IF r.status = ClientError
             THEN /\ EventPoller_handle_error(FALSE)
                  /\ yields' = 0
                  /\ UNCHANGED << url, batch >>
             ELSE IF r.status = 200
             THEN /\ url' = r.nextUrl
                  /\ retry_delay' = INITIAL_RETRY_DELAY
                  /\ waits' = << >>
                  /\ batch' = r.events
                  /\ yields' = 1
                  /\ poller_pc' = "yield"
             ELSE IF r.status >= 500
             THEN /\ EventPoller_handle_error(TRUE)
                  /\ yields' = 0
                  /\ UNCHANGED << url, batch >>
             ELSE /\ EventPoller_handle_error(FALSE)
                  /\ yields' = 0
                  /\ url' = r.nextUrl
                  /\ UNCHANGED batch
    /\ UNCHANGED << app_vars, tool_vars, poller, config, now, ticked, led, animation_task, pc,
                    locals, event, history, faults >>

\* event_poller.py, one iteration of the loop of poll_events
EventPoller_poll_events ==
    /\ poller = "event_poller"
    /\ poller_pc = "get"
    /\ \E r \in PossibleResponses :
          /\ request' = [url |-> url, retry_delay |-> retry_delay]
          /\ response' = r
          /\ IF r.status = ClientError
             THEN /\ EventPoller_handle_error(FALSE)
                  /\ yields' = 0
                  /\ UNCHANGED << url, batch >>
             ELSE IF r.status = 200
             THEN /\ url' = r.nextUrl
                  /\ retry_delay' = INITIAL_RETRY_DELAY
                  /\ waits' = << >>
                  /\ batch' = r.events
                  /\ yields' = 1
                  /\ poller_pc' = "yield"
             ELSE IF r.status >= 500
             THEN /\ EventPoller_handle_error(TRUE)
                  /\ yields' = 0
                  /\ UNCHANGED << url, batch >>
             ELSE /\ EventPoller_handle_error(FALSE)
                  /\ yields' = 0
                  /\ UNCHANGED << url, batch >>
    /\ UNCHANGED << app_vars, tool_vars, poller, config, now, ticked, led, animation_task, pc,
                    locals, event, history, faults >>

\* event_poller.py, the sleep of handle_error ends
EventPoller_handle_error_resume ==
    /\ poller = "event_poller"
    /\ poller_pc = "sleep"
    /\ poller_pc' = "get"
    /\ UNCHANGED << app_vars, tool_vars, poller, url, retry_delay, request, response, waits,
                    yields, batch, config, now, ticked, led, animation_task,
                    pc, locals, event, history, faults >>

\* main.py, handle_error up to its sleep
Main_handle_error ==
    /\ waits' = Append(waits, retry_delay)
    /\ poller_pc' = "sleep"
    /\ UNCHANGED retry_delay

\* main.py, one iteration of the loop of fetch_events
Main_fetch_events ==
    /\ poller = "main"
    /\ poller_pc = "get"
    /\ \E r \in PossibleResponses :
          /\ request' = [url |-> url, retry_delay |-> retry_delay]
          /\ response' = r
          /\ IF r.status = ClientError
             THEN /\ Main_handle_error
                  /\ yields' = 0
                  /\ UNCHANGED << url, batch >>
             ELSE IF r.status = 200
             THEN /\ url' = r.nextUrl
                  /\ retry_delay' = 1
                  /\ waits' = << >>
                  /\ batch' = r.events
                  /\ yields' = 1
                  /\ poller_pc' = "yield"
             ELSE /\ Main_handle_error
                  /\ yields' = 0
                  /\ UNCHANGED << url, batch >>
    /\ UNCHANGED << app_vars, tool_vars, poller, config, now, ticked, led, animation_task, pc,
                    locals, event, history, faults >>

\* main.py, handle_error after its sleep
Main_handle_error_resume ==
    /\ poller = "main"
    /\ poller_pc = "sleep"
    /\ retry_delay' =
           IF retry_delay = Main_MAX_RETRY_DELAY THEN retry_delay
           ELSE Min(retry_delay * Main_RETRY_FACTOR, Main_MAX_RETRY_DELAY)
    /\ poller_pc' = "get"
    /\ UNCHANGED << app_vars, tool_vars, poller, url, request, response, waits, yields, batch,
                    config, now, ticked, led, animation_task, pc, locals,
                    event, history, faults >>

\* the consumer is done with the yielded batch and asks for the next one
poller_next ==
    /\ poller_pc = "yield"
    /\ poller_pc' = "get"
    /\ batch' = << >>
    /\ UNCHANGED << app_vars, tool_vars, poller, url, retry_delay, request, response, waits,
                    yields, config, now, ticked, led, animation_task, pc,
                    locals, event, history, faults >>

InitPolling ==
    /\ variant \in Variants
    /\ ALERT_DURATION = 1
    /\ COLOR_DURATION = 1
    /\ batch = << >>
    /\ InitTasks
    /\ InitController
    /\ InitOthers

NextPoller ==
    \/ EventPoller_poll_events
    \/ EventPoller_handle_error_resume
    \/ Main_fetch_events
    \/ Main_handle_error_resume
    \/ poller_next

SpecPoller == InitPolling /\ [][NextPoller]_vars

(***************************************************************************)
(* Raw event records.  A record of the API is a mapping; a key that is     *)
(* missing in the payload is a field that is missing in the record.  A     *)
(* value that is not a mapping is the record NotAMapping.                  *)
(***************************************************************************)
NotAMapping == [scalar |-> "text"]
IsMapping(d) == "scalar" \notin DOMAIN d

\* the empty mapping {}
EmptyDict == << >>

\* dict.get(key, default)
dict_get(d, key, default) == IF key \in DOMAIN d THEN d[key] ELSE default

\* event_types.py
EventType ==
    { "broadcastStart", "broadcastStop", "chatMessage", "fanclubJoin",
      "follow", "mediaPurchase", "privateMessage", "roomSubjectChange",
      "tip", "unfollow", "userEnter", "userLeave" }

RawUser == [username |-> "user"]
RawTip(tokens, message) == [tokens |-> tokens, message |-> message]

RawEvents ==
    { [method |-> "tip",
       object |-> [tip |-> RawTip(TOKENS_FOR_COLOR_ALERT, Word_red),
                   user |-> RawUser]],
      [method |-> "tip",
       object |-> [tip |-> RawTip(TOKENS_FOR_COLOR_ALERT - 1, Word_x),
                   user |-> RawUser]],
      [method |-> "follow", object |-> [user |-> RawUser]],
      \* no method
      [object |-> [tip |-> RawTip(TOKENS_FOR_COLOR_ALERT, Word_red),
                   user |-> RawUser]],
      \* no object
      [method |-> "tip"],
      \* no tip
      [method |-> "tip", object |-> [user |-> RawUser]],
      \* no user
      [method |-> "tip",
       object |-> [tip |-> RawTip(TOKENS_FOR_COLOR_ALERT, Word_red)]],
      \* a method name that is not an event type
      [method |-> "bogus", object |-> [user |-> RawUser]],
      NotAMapping }

\* what the dispatcher makes of a record: it raises out of process_events,
\* it skips the record, or it goes on to the decision with tokens and message
Raise == [outcome |-> "raise", tokens |-> 0, message |-> << >>]
Skip == [outcome |-> "skip", tokens |-> 0, message |-> << >>]
TipOf(tip) ==
    [outcome |-> "tip", tokens |-> dict_get(tip, "tokens", 0),
     message |-> dict_get(tip, "message", << >>)]

\* event_handler.py: event.get on a record that is not a mapping raises
\* AttributeError, which except KeyError does not catch; TipEvent(**tip_data)
\* raises ValidationError when user or tip is missing, which is caught
EventHandler_read(raw) ==
    IF ~IsMapping(raw) THEN Raise
    ELSE IF dict_get(raw, "method", None) # "tip" THEN Skip
    ELSE LET tip_data == dict_get(raw, "object", EmptyDict)
         IN  IF ~IsMapping(tip_data) THEN Skip
             ELSE IF "user" \notin DOMAIN tip_data
                     \/ "tip" \notin DOMAIN tip_data THEN Skip
             ELSE IF ~IsMapping(tip_data.tip) \/ ~IsMapping(tip_data.user)
             THEN Skip
             ELSE TipOf(tip_data.tip)

\* main.py: event["method"] and event["object"] raise when the key is
\* missing or the record is not a mapping; tip and user have defaults
Main_read(raw) ==
    IF ~IsMapping(raw) \/ "method" \notin DOMAIN raw THEN Raise
    ELSE IF raw.method # "tip" THEN Skip
    ELSE IF "object" \notin DOMAIN raw THEN Raise
    ELSE IF ~IsMapping(raw.object) THEN Raise
    ELSE LET tip_details == dict_get(raw.object, "tip", EmptyDict)
         IN  IF ~IsMapping(tip_details) THEN Raise
             ELSE TipOf(tip_details)

\* event_processor.py: EventType(event["method"]) raises on a missing key
\* and on a value that is no event type; event["object"]["tip"] raises on
\* a missing key.  The logger is taken not to be enabled for DEBUG, so that
\* event["object"]["user"] is not read.
EventProcessor_read(raw) ==
    IF ~IsMapping(raw) \/ "method" \notin DOMAIN raw THEN Raise
    ELSE IF raw.method \notin EventType THEN Raise
    ELSE IF raw.method # "tip" THEN Skip
    ELSE IF "object" \notin DOMAIN raw THEN Raise
    ELSE IF ~IsMapping(raw.object) \/ "tip" \notin DOMAIN raw.object
    THEN Raise
    ELSE IF ~IsMapping(raw.object.tip) THEN Raise
    ELSE TipOf(raw.object.tip)

read(v, raw) ==
    IF v = "event_handler" THEN EventHandler_read(raw)
    ELSE IF v = "main" THEN Main_read(raw)
    ELSE EventProcessor_read(raw)

\* mutant: the alert operation is started as a task of its own and not
\* awaited, so the loop goes on while an alert sleeps
process_raw_event_not_awaited ==
    /\ pc \in { "idle", "normal_sleep", "color_sleep" }
    /\ batch # << >>
    /\ batch' = Tail(batch)
    /\ LET r == read(variant, Head(batch))
       IN  IF r.outcome = "tip" THEN process_tip(Tip(r.tokens, r.message))
           ELSE /\ pc' = IF r.outcome = "raise" THEN "failed" ELSE pc
                /\ UNCHANGED << led, locals, event, history, faults >>
    /\ UNCHANGED << others, config, now, ticked, animation_task >>

\* mutant: a record that is skipped is answered with the normal alert
process_raw_event_alert_on_skip ==
    /\ pc = "idle"
    /\ batch # << >>
    /\ batch' = Tail(batch)
    /\ LET r == read(variant, Head(batch))
       IN  IF r.outcome \in { "tip", "skip" }
           THEN process_tip(Tip(r.tokens, r.message))
           ELSE /\ pc' = "failed"
                /\ UNCHANGED << led, locals, event, history, faults >>
    /\ UNCHANGED << others, config, now, ticked, animation_task >>

\* the body of the loop of process_events, for the next raw record of the
\* batch
process_raw_event ==
    /\ pc = "idle"
    /\ batch # << >>
    /\ batch' = Tail(batch)
    /\ LET r == read(variant, Head(batch))
       IN  IF r.outcome = "tip" THEN process_tip(Tip(r.tokens, r.message))
           ELSE /\ pc' = IF r.outcome = "raise" THEN "failed" ELSE pc
                /\ UNCHANGED << led, locals, event, history, faults >>
    /\ UNCHANGED << others, config, now, ticked, animation_task >>

\* a batch of raw records is pending, under any iteration of the dispatcher
InitRecords ==
    /\ variant \in Variants
    /\ ALERT_DURATION = 1
    /\ COLOR_DURATION = MaxColorDuration
    /\ batch \in [1..MaxRecords -> RawEvents]
    /\ InitTasks
    /\ InitController
    /\ InitOthers

NextRecords ==
    \/ process_raw_event
    \/ trigger_normal_alert_resume
    \/ trigger_color_alert_resume
    \/ run_animation_loop
    \/ Advance

SpecRecords == InitRecords /\ [][NextRecords]_vars

(***************************************************************************)
(* The application: signals and shutdown.  A task that is cancelled gets   *)
(* CancelledError at the await it is suspended in and performs no step of  *)
(* its own after task.cancel().                                            *)
(***************************************************************************)
\* task.cancel(), on the status of a task
Cancel(status) ==
    IF status \in { "running", "idle", "normal_sleep", "color_sleep" }
    THEN "cancelling" ELSE status

\* task.done()
Finished(status) == status \in { "cancelled", "failed" }

\* is_running
is_running == ~shutdown_event

\* the records of the batch that is pending when the application starts
AppRecords ==
    { [method |-> "tip",
       object |-> [tip |-> RawTip(TOKENS_FOR_COLOR_ALERT, Word_red),
                   user |-> RawUser]],
      [method |-> "tip",
       object |-> [tip |-> RawTip(TOKENS_FOR_COLOR_ALERT - 1, Word_x),
                   user |-> RawUser]],
      NotAMapping }

\* strip_alerts.py: a signal arrives, the handler creates the task of
\* stop_service unless the shutdown event is set
strip_alerts_signal_handler ==
    /\ app = "strip_alerts"
    /\ main_pc # "exited"
    /\ signals < MaxSignals
    /\ signals' = signals + 1
    /\ stoppers' = IF is_running /\ ~shutdown_event
                   THEN Append(stoppers, "created") ELSE stoppers
    /\ UNCHANGED << poller_vars, tool_vars, app, shutdown_event, main_pc, releases,
                    config, now, ticked, led, animation_task, pc, locals,
                    batch, event, history, faults >>

\* stripalerts_app.py: a signal arrives, the handler creates the task of
\* stop_service
stripalerts_app_signal_handler ==
    /\ app = "stripalerts_app"
    /\ main_pc # "exited"
    /\ signals < MaxSignals
    /\ signals' = signals + 1
    /\ stoppers' = Append(stoppers, "created")
    /\ UNCHANGED << poller_vars, tool_vars, app, shutdown_event, main_pc, releases,
                    config, now, ticked, led, animation_task, pc, locals,
                    batch, event, history, faults >>

\* stop_service, from its entry to the await of the animation task
stop_service ==
    /\ ~DispatcherRunning
    /\ \E k \in DOMAIN stoppers :
          /\ stoppers[k] = "created"
          /\ stoppers' = [stoppers EXCEPT ![k] = "await_animation"]
    /\ shutdown_event' = TRUE
    /\ animation_task' = Cancel(animation_task)
    /\ UNCHANGED << poller_vars, tool_vars, app, main_pc, releases, signals, config,
                    now, ticked, led, pc, locals, batch, event, history,
                    faults >>

\* mutant: the strip is cleared as soon as the animation task has ended
stop_service_await_animation_release_first ==
    /\ ~DispatcherRunning
    /\ Finished(animation_task)
    /\ \E k \in DOMAIN stoppers :
          /\ stoppers[k] = "await_animation"
          /\ IF animation_task = "failed"
             THEN /\ stoppers' = [stoppers EXCEPT ![k] = "failed"]
                  /\ UNCHANGED << pc, releases, current_animation >>
             ELSE /\ stoppers' = [stoppers EXCEPT ![k] = "sleep0"]
                  /\ pc' = Cancel(pc)
                  /\ releases' = releases + 1
                  /\ current_animation' = Cleared
    /\ UNCHANGED << poller_vars, tool_vars, app, shutdown_event, main_pc, signals,
                    config, now, ticked, current_color, color_set_time,
                    animation_task, locals, batch, event, history, faults >>

\* stop_service, from the end of the animation task to the await of the
\* processing task; await task raises what a failed task ended with
stop_service_await_animation ==
    /\ ~DispatcherRunning
    /\ Finished(animation_task)
    /\ \E k \in DOMAIN stoppers :
          /\ stoppers[k] = "await_animation"
          /\ IF animation_task = "failed"
             THEN /\ stoppers' = [stoppers EXCEPT ![k] = "failed"]
                  /\ UNCHANGED << pc, releases, current_animation >>
             ELSE /\ stoppers' = [stoppers EXCEPT ![k] = "await_processing"]
                  /\ pc' = Cancel(pc)
                  /\ UNCHANGED << releases, current_animation >>
    /\ UNCHANGED << poller_vars, tool_vars, app, shutdown_event, main_pc, signals,
                    config, now, ticked, current_color, color_set_time,
                    animation_task, locals, batch, event, history, faults >>

\* stop_service, from the end of the processing task into stop_animation,
\* up to its asyncio.sleep(0)
stop_service_await_processing ==
    /\ Finished(pc)
    /\ \E k \in DOMAIN stoppers :
          /\ stoppers[k] = "await_processing"
          /\ IF pc = "failed"
             THEN /\ stoppers' = [stoppers EXCEPT ![k] = "failed"]
                  /\ UNCHANGED << releases, current_animation >>
             ELSE /\ stoppers' = [stoppers EXCEPT ![k] = "sleep0"]
                  /\ releases' = releases + 1
                  /\ current_animation' = Cleared
    /\ UNCHANGED << poller_vars, tool_vars, app, shutdown_event, main_pc, signals,
                    config, now, ticked, current_color, color_set_time,
                    animation_task, pc, locals, batch, event, history,
                    faults >>

\* stop_service, from the sleep of stop_animation to its return
stop_service_return ==
    /\ ~DispatcherRunning
    /\ \E k \in DOMAIN stoppers :
          /\ stoppers[k] = "sleep0"
          /\ stoppers' = [stoppers EXCEPT ![k] = "done"]
    /\ UNCHANGED << poller_vars, tool_vars, app, shutdown_event, main_pc, releases,
                    signals, config, now, ticked, led, animation_task, pc,
                    locals, batch, event, history, faults >>

\* the animation task ends with CancelledError
animation_task_cancelled ==
    /\ animation_task = "cancelling"
    /\ animation_task' = "cancelled"
    /\ UNCHANGED << others, config, now, ticked, led, pc, locals, batch,
                    event, history, faults >>

\* the processing task ends with CancelledError
processing_task_cancelled ==
    /\ pc = "cancelling"
    /\ pc' = "cancelled"
    /\ UNCHANGED << others, config, now, ticked, led, animation_task,
                    locals, batch, event, history, faults >>

\* run_tasks / start_service return when the shutdown event is set
run_tasks_return ==
    /\ app # "main"
    /\ main_pc = "wait"
    /\ ~DispatcherRunning
    /\ shutdown_event
    /\ main_pc' = "exited"
    /\ UNCHANGED << poller_vars, tool_vars, app, shutdown_event, stoppers, releases,
                    signals, config, now, ticked, led, animation_task, pc,
                    locals, batch, event, history, faults >>

\* main(): the finally block up to its gather, both tasks are cancelled
main_finally_cancel ==
    /\ animation_task' = Cancel(animation_task)
    /\ pc' = Cancel(pc)
    /\ main_pc' = "finally"

\* main(): gather raises what a failed task ended with
main_gather_raises ==
    /\ app = "main"
    /\ main_pc = "gather"
    /\ ~DispatcherRunning
    /\ animation_task = "failed" \/ pc = "failed"
    /\ main_finally_cancel
    /\ UNCHANGED << poller_vars, tool_vars, app, shutdown_event, stoppers, releases,
                    signals, config, now, ticked, led, locals, batch, event,
                    history, faults >>

\* main(): an interrupt ends the wait on gather
main_interrupted ==
    /\ app = "main"
    /\ main_pc = "gather"
    /\ ~DispatcherRunning
    /\ signals < MaxSignals
    /\ signals' = signals + 1
    /\ main_finally_cancel
    /\ UNCHANGED << poller_vars, tool_vars, app, shutdown_event, stoppers, releases,
                    config, now, ticked, led, locals, batch, event, history,
                    faults >>

\* main(): the gather of the finally block returns, stop_animation runs up
\* to its asyncio.sleep(0)
main_finally_stop_animation ==
    /\ app = "main"
    /\ main_pc = "finally"
    /\ Finished(animation_task)
    /\ Finished(pc)
    /\ releases' = releases + 1
    /\ current_animation' = Cleared
    /\ main_pc' = "sleep0"
    /\ UNCHANGED << poller_vars, tool_vars, app, shutdown_event, stoppers, signals,
                    config, now, ticked, current_color, color_set_time,
                    animation_task, pc, locals, batch, event, history,
                    faults >>

\* main(): from the sleep of stop_animation to the end of main()
main_return ==
    /\ app = "main"
    /\ main_pc = "sleep0"
    /\ main_pc' = "exited"
    /\ UNCHANGED << poller_vars, tool_vars, app, shutdown_event, stoppers, releases,
                    signals, config, now, ticked, led, animation_task, pc,
                    locals, batch, event, history, faults >>

\* the application runs, one raw record is pending
InitApp ==
    /\ app \in Apps
    /\ variant = DispatcherOf(app)
    /\ ALERT_DURATION = 1
    /\ COLOR_DURATION = 1
    /\ batch \in { << r >> : r \in AppRecords }
    /\ InitTasks
    /\ InitController
    /\ InitPoller
    /\ InitApplication(app)
    /\ InitTools

\* the steps that the event loop takes
NextAppProgram ==
    \/ process_raw_event
    \/ trigger_normal_alert_resume
    \/ trigger_color_alert_resume
    \/ run_animation_loop
    \/ Advance
    \/ stop_service
    \/ stop_service_await_animation
    \/ stop_service_await_processing
    \/ stop_service_return
    \/ animation_task_cancelled
    \/ processing_task_cancelled
    \/ run_tasks_return
    \/ main_gather_raises
    \/ main_finally_stop_animation
    \/ main_return

\* the steps of the environment: shutdown signals
NextAppSignals ==
    \/ strip_alerts_signal_handler
    \/ stripalerts_app_signal_handler
    \/ main_interrupted

NextApp == NextAppProgram \/ NextAppSignals

SpecApp == InitApp /\ [][NextApp]_vars

\* the event loop runs every task that is ready; nothing forces a signal
SpecAppFair == SpecApp /\ WF_vars(NextAppProgram)

(***************************************************************************)
(* The application started again after it was stopped, as the web          *)
(* interfaces do with their start button.                                  *)
(***************************************************************************)
\* the starting coroutine has returned and every call of stop_service has
\* ended
Stopped ==
    /\ main_pc = "exited"
    /\ \A k \in DOMAIN stoppers : stoppers[k] \in { "done", "failed" }

\* strip_alerts.py, start_service on an application that was stopped: the
\* shutdown event is cleared, initialize_services builds a new controller,
\* poller and handler, run_tasks creates the two tasks and waits
strip_alerts_start_service ==
    /\ app = "strip_alerts"
    /\ Stopped
    /\ shutdown_event' = FALSE
    /\ current_color' = None
    /\ color_set_time' = NoTime
    /\ current_animation' = Rainbow
    /\ animation_task' = "running"
    /\ pc' = "idle"
    /\ event' = NoEvent
    /\ batch' \in { << r >> : r \in AppRecords }
    /\ main_pc' = "wait"
    /\ UNCHANGED << poller_vars, tool_vars, app, stoppers, releases, signals, config,
                    now, ticked, locals, history, faults >>

\* stripalerts_app.py, start_service on an application that was stopped:
\* the controller is the one that exists, the two tasks are created, and
\* shutdown_event.wait() returns at once when the event is still set
stripalerts_app_start_service ==
    /\ app = "stripalerts_app"
    /\ Stopped
    /\ animation_task' = "running"
    /\ pc' = "idle"
    /\ event' = NoEvent
    /\ batch' \in { << r >> : r \in AppRecords }
    /\ main_pc' = IF shutdown_event THEN "exited" ELSE "wait"
    /\ UNCHANGED << poller_vars, tool_vars, app, shutdown_event, stoppers, releases,
                    signals, config, now, ticked, led, locals, history,
                    faults >>

NextLifecycle ==
    \/ NextApp
    \/ strip_alerts_start_service
    \/ stripalerts_app_start_service

SpecLifecycle == InitApp /\ [][NextLifecycle]_vars

(***************************************************************************)
(* The control front-ends.  A click runs its handler on the event loop of  *)
(* the page up to the handler's first await; a service is an app instance  *)
(* or the subprocess of the main script.                                   *)
(***************************************************************************)
\* everything but the state of the front-end
beside_frontend ==
    << poller_vars, app_vars, latest_event, generated, handlers, config, now,
       ticked, led, animation_task, pc, locals, batch, event, history,
       faults >>

\* a sequence without its k-th element
Remove(seq, k) == SubSeq(seq, 1, k - 1) \o SubSeq(seq, k + 1, Len(seq))

\* src/src/web_ui.py, ControlFunctions.start_service_logic up to its await
web_ui_start_click ==
    /\ frontend = "web_ui"
    /\ clicks < MaxClicks
    /\ clicks' = clicks + 1
    /\ IF ~ui_flag
       THEN /\ ui_flag' = TRUE
            /\ services' = Append(services, "running")
            /\ ui_ref' = Len(services) + 1
       ELSE UNCHANGED << ui_flag, services, ui_ref >>
    /\ UNCHANGED << frontend, ui_tasks, beside_frontend >>

\* src/src/web_ui.py, ControlFunctions.stop_service_logic: the task of
\* stop_service is created
web_ui_stop_click ==
    /\ frontend = "web_ui"
    /\ clicks < MaxClicks
    /\ clicks' = clicks + 1
    /\ IF ui_ref # NoRef
       THEN /\ services' =
                  [services EXCEPT ![ui_ref] =
                       IF @ = "running" THEN "stopping" ELSE @]
            /\ ui_flag' = FALSE
       ELSE UNCHANGED << services, ui_flag >>
    /\ UNCHANGED << frontend, ui_ref, ui_tasks, beside_frontend >>

\* the task of stop_service ends, or the subprocess exits on its SIGTERM
service_ends ==
    /\ frontend \in { "web_ui", "command_runner" }
    /\ \E i \in DOMAIN services :
          /\ services[i] = "stopping"
          /\ services' = [services EXCEPT ![i] = "stopped"]
    /\ UNCHANGED << frontend, ui_flag, ui_ref, ui_tasks, clicks,
                    beside_frontend >>

\* web_ui.py, CommandRunner.start_main_script up to its await of
\* create_subprocess
command_runner_start_click ==
    /\ frontend = "command_runner"
    /\ clicks < MaxClicks
    /\ clicks' = clicks + 1
    /\ ui_tasks' =
           IF ui_ref = NoRef \/ services[ui_ref] = "stopped"
           THEN Append(ui_tasks, [kind |-> "start", ref |-> NoRef])
           ELSE ui_tasks
    /\ UNCHANGED << frontend, ui_flag, ui_ref, services, beside_frontend >>

\* web_ui.py, CommandRunner.start_main_script from the return of
\* create_subprocess: the subprocess runs and self.process refers to it
command_runner_start_return ==
    /\ frontend = "command_runner"
    /\ \E k \in DOMAIN ui_tasks :
          /\ ui_tasks[k].kind = "start"
          /\ ui_tasks' = Remove(ui_tasks, k)
    /\ services' = Append(services, "running")
    /\ ui_ref' = Len(services) + 1
    /\ UNCHANGED << frontend, ui_flag, clicks, beside_frontend >>

\* web_ui.py, CommandRunner.stop_main_script: terminate(), then the handler
\* waits for the subprocess
command_runner_stop_click ==
    /\ frontend = "command_runner"
    /\ clicks < MaxClicks
    /\ clicks' = clicks + 1
    /\ services' =
           IF ui_ref # NoRef /\ services[ui_ref] = "running"
           THEN [services EXCEPT ![ui_ref] = "stopping"]
           ELSE services
    /\ UNCHANGED << frontend, ui_flag, ui_ref, ui_tasks, beside_frontend >>

\* frontend.py, StripAlertsController.start_strip_alerts up to the await
\* inside start_service
frontend_start_click ==
    /\ frontend = "frontend"
    /\ clicks < MaxClicks
    /\ clicks' = clicks + 1
    /\ IF ui_ref = NoRef
       THEN /\ services' = Append(services, "running")
            /\ ui_ref' = Len(services) + 1
            /\ ui_flag' = TRUE
       ELSE UNCHANGED << services, ui_ref, ui_flag >>
    /\ UNCHANGED << frontend, ui_tasks, beside_frontend >>

\* frontend.py, StripAlertsController.stop_strip_alerts up to the first
\* await inside stop_service
frontend_stop_click ==
    /\ frontend = "frontend"
    /\ clicks < MaxClicks
    /\ clicks' = clicks + 1
    /\ IF ui_ref # NoRef
       THEN /\ ui_tasks' = Append(ui_tasks, [kind |-> "stop", ref |-> ui_ref])
            /\ services' =
                  [services EXCEPT ![ui_ref] =
                       IF @ = "running" THEN "stopping" ELSE @]
       ELSE UNCHANGED << ui_tasks, services >>
    /\ UNCHANGED << frontend, ui_flag, ui_ref, beside_frontend >>

\* frontend.py, StripAlertsController.stop_strip_alerts from the return of
\* stop_service
frontend_stop_return ==
    /\ frontend = "frontend"
    /\ \E k \in DOMAIN ui_tasks :
          /\ ui_tasks[k].kind = "stop"
          /\ services' = [services EXCEPT ![ui_tasks[k].ref] = "stopped"]
          /\ ui_tasks' = Remove(ui_tasks, k)
    /\ ui_flag' = FALSE
    /\ ui_ref' = NoRef
    /\ UNCHANGED << frontend, clicks, beside_frontend >>

\* a front-end is open, the dispatcher and the poller are as they start
InitFrontends ==
    /\ variant = "event_handler"
    /\ ALERT_DURATION = 1
    /\ COLOR_DURATION = 1
    /\ batch = << >>
    /\ InitTasks
    /\ InitController
    /\ InitPoller
    /\ InitApplication("strip_alerts")
    /\ \E f \in Frontends : InitFrontend(f)
    /\ InitMock

NextFrontends ==
    \/ web_ui_start_click
    \/ web_ui_stop_click
    \/ service_ends
    \/ command_runner_start_click
    \/ command_runner_start_return
    \/ command_runner_stop_click
    \/ frontend_start_click
    \/ frontend_stop_click
    \/ frontend_stop_return

SpecFrontends == InitFrontends /\ [][NextFrontends]_vars

\* ---------------------------------------------------------------------------
\* mock_api_server.py: the generator thread and the request handlers of the
\* Flask server share event_manager.latest_event without a lock.  The server is
\* run with its default response code 200.  An event is named by the number of
\* the generate_event call that made it.

\* what the mock server leaves alone
beside_mock ==
    << poller_vars, app_vars, frontend, ui_flag, ui_ref, services, ui_tasks,
       clicks, config, now, ticked, led, animation_task, pc, locals, batch,
       event, history, faults >>

\* EventManager.generate_event, called by simulate_event_creation every 10 s
generate_event ==
    /\ generated < MaxEvents
    /\ generated' = generated + 1
    /\ latest_event' = generated + 1
    /\ UNCHANGED << handlers, beside_mock >>

\* events: a request arrives; the loop is entered unless the timeout is 0
events_request(r) ==
    /\ handlers[r].pc = "idle"
    /\ \E p \in { "poll", "empty" } :
          handlers' = [handlers EXCEPT ![r].pc = p]
    /\ UNCHANGED << latest_event, generated, beside_mock >>

\* EventManager.get_latest_event, event = self.latest_event
get_latest_event_read(r) ==
    /\ handlers[r].pc = "poll"
    /\ handlers' = [handlers EXCEPT ![r] = [pc |-> "read", event |-> latest_event]]
    /\ UNCHANGED << latest_event, generated, beside_mock >>

\* EventManager.get_latest_event, self.latest_event = None and the return:
\* events answers with the event, or sleeps when there was none
get_latest_event_clear(r) ==
    /\ handlers[r].pc = "read"
    /\ latest_event' = NoRef
    /\ handlers' = [handlers EXCEPT
                      ![r].pc = IF handlers[r].event # NoRef THEN "done"
                                ELSE "sleep"]
    /\ UNCHANGED << generated, beside_mock >>

\* events: time.sleep(1), then the test of the loop: again, or the empty answer
events_sleep(r) ==
    /\ handlers[r].pc = "sleep"
    /\ \E p \in { "poll", "empty" } :
          handlers' = [handlers EXCEPT ![r].pc = p]
    /\ UNCHANGED << latest_event, generated, beside_mock >>

\* the mock server is started, the dispatcher and the poller are as they start
InitMockServer ==
    /\ variant = "event_handler"
    /\ ALERT_DURATION = 1
    /\ COLOR_DURATION = 1
    /\ batch = << >>
    /\ InitTasks
    /\ InitController
    /\ InitPoller
    /\ InitApplication("strip_alerts")
    /\ InitTools

NextMock ==
    \/ generate_event
    \/ \E r \in 1..MaxRequests : events_request(r)
    \/ \E r \in 1..MaxRequests : get_latest_event_read(r)
    \/ \E r \in 1..MaxRequests : get_latest_event_clear(r)
    \/ \E r \in 1..MaxRequests : events_sleep(r)

SpecMock == InitMockServer /\ [][NextMock]_vars

(***************************************************************************)
(* Properties of the dispatcher (SpecDispatch).                            *)
(***************************************************************************)
\* a and b are equal up to the case of their letters
EqualsIgnoreCase(a, b) ==
    /\ Len(a) = Len(b)
    /\ \A i \in 1..Len(a) : UpperChar(a[i]) = UpperChar(b[i])

\* the colors whose name is s, ignoring case
ColorsNamed(s) == { c \in AlertColor : EqualsIgnoreCase(s, MemberName(c)) }

\* the colors named by the cleaned message of the event being processed
EventColors == ColorsNamed(clean_message(variant, event.message))

\* C1: a tip of at least the threshold (equal to it or above it) whose
\* cleaned message is, ignoring case, the name of a color makes the
\* dispatcher invoke trigger_color_alert with that color, and not
\* trigger_normal_alert.
C1_ColorAlertAtOrAboveThreshold ==
    ( /\ event.method = "tip"
      /\ event.tokens >= TOKENS_FOR_COLOR_ALERT
      /\ EventColors # {} )
    => ( /\ lastCall.op = "color"
         /\ lastColorCall.color \in EventColors
         /\ lastColorCall.time = lastCall.time
         /\ pc = "color_sleep"
         /\ color \in EventColors )

\* C2: a tip below the threshold, whatever its message, makes the dispatcher
\* invoke trigger_normal_alert and never trigger_color_alert, and no step of
\* its processing changes the held color or its timestamp.
C2_BelowThresholdNormalAlert ==
    /\ []( (event.method = "tip" /\ event.tokens < TOKENS_FOR_COLOR_ALERT)
           => (lastCall.op = "normal" /\ pc = "normal_sleep") )
    /\ [][ /\ ( /\ DispatcherRunning
                /\ Head(batch).method = "tip"
                /\ Head(batch).tokens < TOKENS_FOR_COLOR_ALERT )
              => ( /\ lastCall'.op = "normal"
                   /\ lastCall'.time = now
                   /\ pc' # "color_sleep"
                   /\ lastColorCall' = lastColorCall
                   /\ UNCHANGED << current_color, color_set_time >> )
           /\ ( /\ pc' # pc
                /\ event.method = "tip"
                /\ event.tokens < TOKENS_FOR_COLOR_ALERT )
              => ( /\ lastColorCall' = lastColorCall
                   /\ UNCHANGED << current_color, color_set_time >> )
         ]_vars

\* a tip below the threshold whose message is a color name is being shown as
\* a normal alert while another color stays held
C2_Witness ==
    /\ event = Tip(TOKENS_FOR_COLOR_ALERT - 1, Word_red)
    /\ pc = "normal_sleep"
    /\ lastCall.op = "normal"
    /\ current_color = "BLUE"
    /\ color_set_time = StartTime

\* C3: a tip of at least the threshold whose cleaned message is not the name
\* of a color makes the dispatcher invoke trigger_normal_alert and not
\* trigger_color_alert.
C3_NoColorNameNormalAlert ==
    ( /\ event.method = "tip"
      /\ event.tokens >= TOKENS_FOR_COLOR_ALERT
      /\ EventColors = {} )
    => ( /\ lastCall.op = "normal"
         /\ pc = "normal_sleep"
         /\ lastColorCall.time # lastCall.time )

\* a tip above the threshold whose message is a color name followed by a
\* space is being shown as a normal alert
C3_Witness ==
    /\ event = Tip(TOKENS_FOR_COLOR_ALERT + 1, Word_red \o Space)
    /\ pc = "normal_sleep"
    /\ lastCall.op = "normal"

\* C4: with the threshold 35, the tip of exactly 35 tokens with the message
\* "-- Select One -- | green" results in trigger_color_alert(GREEN), and the
\* tip of 10 tokens with the message "red" in trigger_normal_alert.
C4_Scenario ==
    /\ TOKENS_FOR_COLOR_ALERT = 35
    /\ event = Tip(35, PlaceholderPrefix \o Word_green)
       => ( /\ lastCall.op = "color"
            /\ lastColorCall.color = "GREEN"
            /\ lastColorCall.time = lastCall.time
            /\ pc = "color_sleep"
            /\ color = "GREEN" )
    /\ event = Tip(10, Word_red)
       => ( /\ lastCall.op = "normal"
            /\ pc = "normal_sleep"
            /\ lastColorCall.time # lastCall.time )

\* the tip of 35 tokens with the placeholder prefix before "green" is being
\* shown as the color alert of GREEN
C4_Witness ==
    /\ event = Tip(35, PlaceholderPrefix \o Word_green)
    /\ pc = "color_sleep"
    /\ color = "GREEN"
    /\ current_animation = Pulse("GREEN")

(***************************************************************************)
(* Properties of the animation state machine (Spec).                       *)
(***************************************************************************)
\* the hold of the last color alert has run out: more than COLOR_DURATION
\* seconds have passed since it was triggered
HoldRanOut ==
    /\ lastColorCall.time # NoTime
    /\ now - lastColorCall.time > COLOR_DURATION

\* C5: after a color alert, with no later color alert (normal alerts
\* allowed), once the hold has run out and the animation loop has run, the
\* held color is cleared and, no alert being in progress, the strip shows
\* the idle animation and not the color.  Stated for the configurations
\* whose alert is not longer than the hold, and for runs without hardware
\* error.
C5_RevertsToIdleAfterHold ==
    ( /\ ALERT_DURATION <= COLOR_DURATION
      /\ faults = 0
      /\ HoldRanOut
      /\ ticked
      /\ pc = "idle" )
    => ( /\ current_color = None
         /\ current_animation = Rainbow )

\* a step that invokes trigger_color_alert
ColorCallStep == lastColorCall' # lastColorCall

\* a step of the animation loop: every other step changes pc, batch or now
TickStep == pc' = pc /\ batch' = batch /\ now' = now

\* C6: a color alert triggered while another color is held replaces the held
\* color and restarts its timer, and the animation loop clears the held color
\* only when more than COLOR_DURATION has passed since the last color alert,
\* never counting from an earlier one.
C6_NewColorResetsTimer ==
    [][ /\ ColorCallStep
           => ( /\ current_color' = lastColorCall'.color
                /\ color_set_time' = now
                /\ lastColorCall'.time = now )
        /\ (current_color # None /\ current_color' = None)
           => ( /\ TickStep
                /\ current_color = lastColorCall.color
                /\ now - lastColorCall.time > COLOR_DURATION )
      ]_vars

\* GREEN replaced a held, unexpired RED, and the hold of GREEN has since run
\* out and been reverted by the animation loop
C6_Witness ==
    /\ lastColorCall.color = "GREEN"
    /\ lastColorCall.held_before = "RED"
    /\ current_color = None
    /\ current_animation = Rainbow
    /\ now - lastColorCall.time > COLOR_DURATION
    /\ faults = 0

\* C7: an iteration of the animation loop clears the held color and
\* activates the idle animation when a color is held and now - heldSince is
\* strictly greater than COLOR_DURATION, and otherwise changes neither the
\* held color nor the active animation.
C7_TickRevertsOnlyWhenExpired ==
    [][ TickStep
        => IF /\ current_color # None
              /\ color_set_time # NoTime
              /\ now - color_set_time > COLOR_DURATION
           THEN /\ current_color' = None
                /\ \/ current_animation' = Rainbow
                   \/ animation_task' = "failed"
           ELSE UNCHANGED << current_color, color_set_time, current_animation >>
      ]_vars

\* the animation loop has run exactly COLOR_DURATION after the color alert
\* and left the color held
C7_Witness ==
    /\ current_color = "RED"
    /\ current_animation = Solid("RED")
    /\ now - color_set_time = COLOR_DURATION
    /\ ticked
    /\ pc = "idle"

\* C8: when trigger_normal_alert returns, the active animation is the one
\* that was active when it was called, whatever the animation loop did
\* meanwhile; with no hardware error before the call, that is the solid
\* animation of the held color when a color was held.
C8_NormalAlertRestoresPrevious ==
    /\ []( (pc = "normal_sleep" /\ lastCall.held_before # None /\ faults = 0)
           => lastCall.anim_before = Solid(lastCall.held_before) )
    /\ [][ (pc = "normal_sleep" /\ pc' = "idle" /\ faults' = faults)
           => ( /\ lastCall.op = "normal"
                /\ current_animation' = lastCall.anim_before )
         ]_vars

\* a normal alert called while RED was shown has returned after the
\* animation loop reverted the hold during it, and RED is shown again
C8_Witness ==
    /\ pc = "idle"
    /\ lastCall.op = "normal"
    /\ lastCall.anim_before = Solid("RED")
    /\ lastCall.held_before = "RED"
    /\ current_color = None
    /\ current_animation = Solid("RED")
    /\ faults = 0

\* C9: trigger_color_alert(c) records c and the time as held and activates
\* the pulse of c before its pause, and when it returns the active animation
\* is the solid of c and c is still held, for every configuration of the two
\* durations and every interleaving with the animation loop.
C9_ColorAlertEndsSolidAndHeld ==
    [][ /\ (ColorCallStep /\ faults' = faults)
           => ( /\ current_color' = lastColorCall'.color
                /\ color_set_time' = now
                /\ current_animation' = Pulse(lastColorCall'.color)
                /\ pc' = "color_sleep" )
        /\ (pc = "color_sleep" /\ pc' = "idle" /\ faults' = 0)
           => ( /\ current_animation' = Solid(lastColorCall.color)
                /\ current_color' = lastColorCall.color )
      ]_vars

\* C10: a held color is the color of the last trigger_color_alert and its
\* timestamp the time of that call, and every step that sets the held color
\* also changes the displayed animation to that color's, on error paths too.
C10_HeldColorTracksLastAlert ==
    /\ []( current_color # None
           => ( /\ current_color = lastColorCall.color
                /\ color_set_time = lastColorCall.time ) )
    /\ [][ ColorCallStep
           => current_animation' = Pulse(current_color') ]_vars


(***************************************************************************)
(* Properties of the event poller (SpecPoller).                            *)
(***************************************************************************)
\* C11: over consecutive failed requests the delays waited are the initial
\* delay, then min(previous * factor, ceiling) each time: 5, 10, 20, 40,
\* 60, 60, ... for initial 5, factor 2, ceiling 60.
C11_BackoffSequence ==
    /\ waits # << >> => waits[1] = InitialDelay(poller)
    /\ \A i \in 2..Len(waits) :
          waits[i] = Min(waits[i - 1] * RetryFactor(poller), MaxDelay(poller))

\* a request has succeeded in this run: the url is one a response named
HasSucceeded == url # BaseUrl

\* C12: after a successful poll the retry delay is the configured initial
\* delay, and the first delay waited after the next failure is that value.
C12_DelayInitialAfterSuccess ==
    /\ poller_pc = "yield" => retry_delay = InitialDelay(poller)
    /\ (HasSucceeded /\ waits # << >>) => waits[1] = InitialDelay(poller)

\* the last request issued has failed (a status other than 200, or a
\* client error)
FailedLast == request # NoRequest /\ response.status # 200

\* C13: every failed request, a 5xx response like a connection error,
\* leaves the retry delay doubled up to the ceiling for the next attempt,
\* and no failure lowers or resets the delay.
C13_SameBackoffNeverReset ==
    /\ FailedLast => retry_delay >= request.retry_delay
    /\ (FailedLast /\ poller_pc = "get") =>
           retry_delay =
               Min(request.retry_delay * RetryFactor(poller), MaxDelay(poller))

\* the statuses that name bad credentials or a bad url
NonRetryable == { 401, 404 }

\* C14: once a request has come back with 401 or 404 the polling loop is
\* over: the poller neither sleeps for a retry nor issues a request.
C14_NonRetryableTerminates ==
    (request # NoRequest /\ response.status \in NonRetryable)
        => poller_pc \notin { "sleep", "get" }

\* a step of the poller that issues a request and handles its response
RequestStep == poller_pc = "get" /\ poller_pc' # "get"

\* C15: the url changes only when a request succeeds, to the nextUrl of
\* that response, whose events are yielded once; a failed request leaves
\* the url as it was and the next request goes to the same url.
C15_UrlAdvancesOnlyOnSuccess ==
    /\ [](poller_pc = "yield" =>
            /\ response.status = 200
            /\ url = response.nextUrl
            /\ batch = response.events
            /\ yields = 1)
    /\ [](FailedLast => url = request.url /\ yields = 0)
    /\ [][ RequestStep =>
             /\ request'.url = url
             /\ IF response'.status = 200
                THEN /\ url' = response'.nextUrl
                     /\ batch' = response'.events
                     /\ yields' = 1
                     /\ poller_pc' = "yield"
                ELSE /\ url' = url
                     /\ batch' = batch
                     /\ yields' = 0
                     /\ poller_pc' = "sleep" ]_vars
    /\ [][ (RequestStep /\ FailedLast) => request'.url = request.url ]_vars
    /\ [][ ~RequestStep => (url' = url /\ yields' = yields) ]_vars

\* a request failed after an earlier success, was retried at the same url
\* and failed again
C15_Witness ==
    /\ HasSucceeded
    /\ FailedLast
    /\ Len(waits) >= 2
    /\ request.url = url
    /\ url # response.nextUrl

(***************************************************************************)
(* Properties of the handling of raw records (SpecRecords).                *)
(***************************************************************************)
\* a record that misses method, object, tip or user, names an unknown
\* method, or is not a mapping
Malformed(raw) ==
    \/ ~IsMapping(raw)
    \/ "method" \notin DOMAIN raw
    \/ raw.method \notin EventType
    \/ /\ raw.method = "tip"
       /\ \/ "object" \notin DOMAIN raw
          \/ "tip" \notin DOMAIN raw.object
          \/ "user" \notin DOMAIN raw.object

\* C16: a malformed record is skipped: the task of process_events goes on
\* with the rest of the batch, and no alert is triggered for the record.
C16_MalformedRecordSkipped ==
    [][ (pc = "idle" /\ batch # << >> /\ Malformed(Head(batch)))
        => /\ pc' = "idle"
           /\ batch' = Tail(batch)
           /\ UNCHANGED << led, lastCall >> ]_vars

(***************************************************************************)
(* Properties of error handling and shutdown.                              *)
(***************************************************************************)
\* C17: a hardware error ends the task it was raised in: the animation
\* loop when raised by the tick, the task of process_events when raised by
\* an alert operation, which then does not go on to the next event.
C17_HardwareErrorPropagates ==
    [][ faults' > faults
        => \/ animation_task = "running" /\ animation_task' = "failed"
           \/ pc # "failed" /\ pc' = "failed" ]_vars

\* both tasks have ended
TasksFinished == Finished(animation_task) /\ Finished(pc)

\* C18: the strip is cleared by stop_animation only when both tasks have
\* been cancelled and have ended, and once it has been cleared neither task
\* is left to perform a step.
C18_ReleaseAfterTasksFinished ==
    /\ [](releases > 0 => TasksFinished)
    /\ [][ releases' # releases
           => /\ TasksFinished
              /\ releases' = releases + 1
              /\ current_animation' = Cleared
              /\ UNCHANGED << animation_task, pc >> ]_vars
    /\ [][ releases > 0
           => /\ ticked' => ticked
              /\ UNCHANGED << animation_task, pc, current_color,
                              color_set_time, batch, lastCall >> ]_vars

\* a shutdown has cancelled both tasks while they ran and has then cleared
\* the strip
C18_Witness ==
    /\ releases = 1
    /\ animation_task = "cancelled"
    /\ pc = "cancelled"
    /\ current_animation = Cleared

\* the application has left: the waiting coroutine has returned and no call
\* of stop_service is under way
AppExited ==
    /\ main_pc = "exited"
    /\ \A k \in DOMAIN stoppers : stoppers[k] \in { "done", "failed" }

\* C19: stop_animation never runs twice, and when the application has left
\* it has run once.
C19_ReleasedExactlyOnce ==
    /\ releases <= 1
    /\ AppExited => releases = 1

\* the application is in its running state
AppRunning == IF app = "main" THEN main_pc = "gather" ELSE is_running

\* a task of the application has ended with an error
TaskFailed == animation_task = "failed" \/ pc = "failed"

\* C20: when a task has ended with an error the application eventually
\* leaves its running state for its shutdown.
C20_TaskFailureSurfaced == TaskFailed ~> ~AppRunning

(***************************************************************************)
(* Properties of the two tasks together.                                   *)
(***************************************************************************)
\* an alert operation is suspended in its asyncio.sleep
AlertSleeping == pc \in { "normal_sleep", "color_sleep" }

\* the dispatcher takes the next record of the batch
TakesRecord == batch # << >> /\ batch' = Tail(batch)

\* C21: the dispatcher takes the next event only when no alert operation
\* is in progress, and an alert operation in progress ends only when its
\* alert duration has passed: alerts never overlap.
C21_AlertsSerialized ==
    /\ [](AlertSleeping <=> event # NoEvent)
    /\ [][ TakesRecord => (pc = "idle" /\ event = NoEvent) ]_vars
    /\ [][ (AlertSleeping /\ pc' # pc)
           => now >= lastCall.time + ALERT_DURATION ]_vars

\* a second alert is in progress and began when the first one, begun at
\* the start, had lasted its whole duration
C21_Witness ==
    /\ AlertSleeping
    /\ batch = << >>
    /\ faults = 0
    /\ lastCall.time >= StartTime + ALERT_DURATION

\* the hold of the held color has run out
ExpiredHold == Expired(current_color, color_set_time, now)

\* the task of process_events is suspended: in the request or the retry
\* delay of the poller, or in the sleep of an alert operation
DispatcherSuspended == ~DispatcherRunning

\* C22: whenever the task of process_events is suspended the animation
\* loop can take its step, and a hold that has run out while the animation
\* loop lives is ended: by the loop's revert, or by a new color alert.
C22_TickNotBlocked ==
    /\ []((animation_task = "running" /\ DispatcherSuspended)
            => ENABLED run_animation_loop)
    /\ (ExpiredHold /\ animation_task = "running")
           ~> (current_color = None \/ ~ExpiredHold
                  \/ animation_task = "failed")

\* the hold has run out while an alert operation sleeps, and the animation
\* loop has reverted it during that sleep
C22_Witness ==
    /\ AlertSleeping
    /\ HoldRanOut
    /\ ticked
    /\ current_color = None
    /\ lastColorCall.time < lastCall.time
    /\ faults = 0

(***************************************************************************)
(* Properties of message cleaning and of the color lookup (SpecDispatch).  *)
(***************************************************************************)
\* the message of the tip that the dispatcher has taken, as it was cleaned
CleanedMessage == clean_message(variant, event.message)

\* what follows the first n characters of s
str_after(s, n) == SubSeq(s, n + 1, Len(s))

\* C23: "-- Select One -- | red" is cleaned to "red", "-- Select One --" to
\* the empty string, and every message that is the prefix
\* "-- Select One -- | " followed by a text is cleaned to that text.
C23_CleaningStripsPrefix ==
    /\ clean_message(variant, PlaceholderPrefix \o Word_red) = Word_red
    /\ clean_message(variant, Placeholder) = << >>
    /\ (event # NoEvent /\ str_startswith(event.message, PlaceholderPrefix))
           => CleanedMessage = str_after(event.message, Len(PlaceholderPrefix))

\* Python's `sub in s` for strings
str_contains(s, sub) ==
    \E i \in 0..(Len(s) - Len(sub)) : SubSeq(s, i + 1, i + Len(sub)) = sub

\* C24: cleaning removes the placeholder prefix and nothing else: a message
\* without the placeholder text is returned unchanged, and a message that is
\* not a color name becomes one only by losing the placeholder prefix.
C24_CleaningStripsOnlyPrefix ==
    event # NoEvent =>
        /\ ~str_contains(event.message, Placeholder)
               => CleanedMessage = event.message
        /\ (from_string(event.message) = None
              /\ from_string(CleanedMessage) # None)
               => str_startswith(event.message, Placeholder)

\* C25: the lookup is defined for every string and ignores case: it returns
\* the color whose name equals the string up to case, None when there is
\* none; it knows exactly the eight colors, and the event_handler.py
\* dispatcher takes BLACK for a match as it does any other color.
C25_LookupTotalIgnoringCase ==
    /\ AlertColor = { "RED", "ORANGE", "YELLOW", "GREEN",
                      "BLUE", "INDIGO", "VIOLET", "BLACK" }
    /\ \A c \in AlertColor : from_string(MemberName(c)) = c
    /\ event # NoEvent =>
          /\ from_string(event.message) \in AlertColor \cup { None }
          /\ ColorsNamed(event.message) = {}
                => from_string(event.message) = None
          /\ ColorsNamed(event.message) # {}
                => ColorsNamed(event.message) = { from_string(event.message) }
          /\ ColorsNamed(CleanedMessage) \subseteq { from_string(CleanedMessage) }
    /\ ( /\ variant = "event_handler"
         /\ event # NoEvent
         /\ event.tokens >= TOKENS_FOR_COLOR_ALERT
         /\ from_string(CleanedMessage) = "BLACK" )
       => ( /\ lastCall.op = "color"
            /\ lastColorCall.color = "BLACK"
            /\ lastColorCall.time = lastCall.time
            /\ current_color = "BLACK" )

\* the event_handler.py dispatcher is pulsing BLACK, and holds it, for a tip
\* whose message is "BlaCk"
C25_Witness ==
    /\ variant = "event_handler"
    /\ event.method = "tip" /\ event.message = Word_BlaCk
    /\ event.tokens >= TOKENS_FOR_COLOR_ALERT
    /\ pc = "color_sleep"
    /\ lastColorCall.color = "BLACK"
    /\ current_color = "BLACK"
    /\ current_animation = Pulse("BLACK")

(***************************************************************************)
(* Properties of the dispatch of events and of the hold (C26..C30).        *)
(***************************************************************************)
\* the record has a method, and it is not "tip"
NonTip(raw) ==
    IsMapping(raw) /\ "method" \in DOMAIN raw /\ raw.method # "tip"

\* C26: the dispatcher's step for an event whose method is not "tip" invokes
\* no alert operation and leaves the active animation, the held color and
\* the time it was set as they were.
C26_NonTipLeavesAnimation ==
    [][ (TakesRecord /\ NonTip(Head(batch)))
        => UNCHANGED << current_animation, current_color, color_set_time,
                        lastCall, lastColorCall, event >> ]_vars

\* the main.py dispatcher has gone through both records of its batch and is
\* alive; the only alert operation was invoked at the start, for a tip it
\* holds the color of, so the other record was an event that is not a tip
C26_Witness ==
    /\ variant = "main"
    /\ batch = << >> /\ pc = "idle" /\ faults = 0
    /\ lastCall.op = "color" /\ lastCall.time = StartTime
    /\ current_color = "RED"

\* the alert operation in progress has not yet paused for ALERT_DURATION
AlertNotElapsed == AlertSleeping /\ now < lastCall.time + ALERT_DURATION

\* C27: from the activation of the alert animation by trigger_normal_alert,
\* or of the pulse by trigger_color_alert, until ALERT_DURATION has elapsed,
\* that animation is the active animation: the animation loop does not
\* replace it with the idle animation.  Stated for runs without hardware
\* error.
C27_AlertAnimationStaysActive ==
    (AlertNotElapsed /\ faults = 0) =>
        /\ pc = "normal_sleep" => current_animation = Sparkle
        /\ pc = "color_sleep"
              => current_animation = Pulse(lastColorCall.color)

\* C28: the animation loop tests the expiry, clears the held color and
\* activates rainbow in one step, and trigger_color_alert writes the held
\* color and its time in one step: every step that changes the held color
\* is one of the two, whole, and in no state is a color held together with
\* the time of another color alert.
C28_HeldColorAndTimeWrittenTogether ==
    /\ []( current_color # None
           => ( /\ lastColorCall.color = current_color
                /\ lastColorCall.time = color_set_time
                /\ color_set_time <= now ) )
    /\ [][ current_color' # current_color
           => \/ /\ ColorCallStep
                 /\ current_color' = lastColorCall'.color
                 /\ color_set_time' = now
              \/ /\ TickStep
                 /\ ExpiredHold
                 /\ current_color' = None
                 /\ color_set_time' = color_set_time
                 /\ faults' = faults => current_animation' = Rainbow ]_vars
    /\ [][ color_set_time' # color_set_time
           => (ColorCallStep /\ current_color' # None) ]_vars

\* the animation loop has cleared the second of two colors held one after
\* the other, and shows rainbow
C28_Witness ==
    /\ lastColorCall.held_before # None
    /\ lastColorCall.held_before # lastColorCall.color
    /\ HoldRanOut /\ ticked /\ faults = 0
    /\ current_color = None
    /\ current_animation = Rainbow
    /\ pc = "idle"

\* C29: whenever the solid animation of a color is the active animation,
\* that color is the held color and the time it was set is recorded, so that
\* the animation loop will revert it.  Stated for runs without hardware
\* error.
C29_SolidImpliesHeld ==
    \A c \in AlertColor :
        (current_animation = Solid(c) /\ faults = 0)
            => (current_color = c /\ color_set_time # NoTime)

\* a tip record with all its parts: method "tip", and an object with a user
\* and a tip that has tokens and a message
WellFormedTip(raw) ==
    /\ IsMapping(raw)
    /\ DOMAIN raw = { "method", "object" }
    /\ raw.method = "tip"
    /\ IsMapping(raw.object)
    /\ DOMAIN raw.object = { "tip", "user" }
    /\ IsMapping(raw.object.tip)
    /\ DOMAIN raw.object.tip = { "tokens", "message" }

\* C30: the dispatcher's step for a well-formed tip invokes exactly one alert
\* operation: trigger_color_alert, which records the color and pulses it, or
\* trigger_normal_alert, which leaves the held color alone and shows
\* sparkle; the operation pauses unless the hardware raised an error.
C30_ExactlyOneAlertPerTip ==
    [][ (TakesRecord /\ WellFormedTip(Head(batch)))
        => /\ lastCall'.time = now
           /\ lastCall'.op \in { "normal", "color" }
           /\ lastCall'.op = "color"
                 => ( /\ lastColorCall'.time = now
                      /\ current_color' = lastColorCall'.color
                      /\ color_set_time' = now
                      /\ faults' = faults
                            => ( /\ pc' = "color_sleep"
                                 /\ current_animation' = Pulse(current_color') ) )
           /\ lastCall'.op = "normal"
                 => ( /\ UNCHANGED << lastColorCall, current_color,
                                      color_set_time >>
                      /\ faults' = faults
                            => ( /\ pc' = "normal_sleep"
                                 /\ current_animation' = Sparkle ) )
           /\ faults' \in { faults, faults + 1 } ]_vars

\* the event_processor.py dispatcher has answered the well-formed tip of 34
\* tokens with the normal alert and no color alert
C30_Witness ==
    /\ variant = "event_processor"
    /\ event = Tip(TOKENS_FOR_COLOR_ALERT - 1, Word_x)
    /\ pc = "normal_sleep"
    /\ lastCall.op = "normal" /\ lastCall.time = now
    /\ lastColorCall = NoColorCall
    /\ current_animation = Sparkle

(***************************************************************************)
(* Properties of the normal alert, of the transient animations and of the  *)
(* order of dispatch (C31..C33).                                           *)
(***************************************************************************)
\* a step that invokes trigger_normal_alert
NormalCallStep ==
    /\ TakesRecord
    /\ lastCall'.op = "normal" /\ lastCall'.time = now
    /\ (pc' = "normal_sleep" \/ faults' # faults)

\* the step in which trigger_normal_alert returns from its pause
NormalReturnStep == pc = "normal_sleep" /\ pc' # pc

\* C31: trigger_normal_alert changes neither the held color nor the time it
\* was set, when it is invoked and when it returns; a color held while a
\* normal alert is shown is cleared by the animation loop exactly when more
\* than COLOR_DURATION has passed since the last color alert.
C31_NormalAlertKeepsHold ==
    /\ [][ (NormalCallStep \/ NormalReturnStep)
           => UNCHANGED << current_color, color_set_time, lastColorCall >>
       ]_vars
    /\ [][ (TickStep /\ pc = "normal_sleep" /\ current_color # None)
           => ( current_color' = None
                  <=> now - lastColorCall.time > COLOR_DURATION ) ]_vars

\* a normal alert is shown while a color is held that was set before it
C31_Witness ==
    /\ pc = "normal_sleep"
    /\ current_animation = Sparkle
    /\ current_color # None
    /\ lastCall.held_before = current_color
    /\ color_set_time = lastColorCall.time
    /\ color_set_time < lastCall.time
    /\ faults = 0

\* the animations that are shown for the length of an alert operation only
Transient(a) == a = Sparkle \/ \E c \in AlertColor : a = Pulse(c)

\* C32: whenever no alert operation is in progress, the active animation is
\* rainbow or the solid animation of a color; sparkle and the pulses are
\* active only while an alert operation pauses.
C32_TransientOnlyDuringAlert ==
    pc = "idle"
        => ( /\ ~Transient(current_animation)
             /\ \/ current_animation = Rainbow
                \/ \E c \in AlertColor : current_animation = Solid(c) )

\* a step in which the poller yields a batch
YieldStep == batch = << >> /\ batch' # << >>

\* C33: the pending events change only by the dispatch of the first of them
\* or, when none is pending and no alert operation is in progress, by the
\* next batch of the poller; an alert operation is invoked only in a step
\* that dispatches the first pending event, for that event.
C33_DispatchInOrder ==
    /\ [][ batch' # batch
           => \/ /\ TakesRecord
                 /\ pc = "idle" /\ event = NoEvent
                 /\ Head(batch).method = "tip"
                       => ( /\ lastCall'.time = now
                            /\ faults' = faults => event' = Head(batch) )
                 /\ Head(batch).method # "tip"
                       => UNCHANGED << lastCall, lastColorCall, event >>
              \/ /\ YieldStep
                 /\ pc = "idle" /\ event = NoEvent
                 /\ UNCHANGED << lastCall, lastColorCall >> ]_vars
    /\ [][ (lastCall' # lastCall \/ event' \notin { event, NoEvent })
           => TakesRecord ]_vars

\* the tip of 35 tokens "red" was dispatched at the start, and after its
\* pause the tip of 34 tokens that followed it; nothing is pending
C33_Witness ==
    /\ batch = << >>
    /\ event = Tip(TOKENS_FOR_COLOR_ALERT - 1, Word_red)
    /\ pc = "normal_sleep"
    /\ lastCall.time = StartTime + ALERT_DURATION
    /\ lastColorCall.color = "RED" /\ lastColorCall.time = StartTime
    /\ faults = 0

(***************************************************************************)
(* Further properties of the poller (SpecPoller) and of the application    *)
(* (SpecApp).                                                              *)
(***************************************************************************)
\* C34: in every state of the poller the retry delay lies between the
\* initial retry delay and the maximal retry delay.
C34_RetryDelayInRange ==
    /\ InitialDelay(poller) <= retry_delay
    /\ retry_delay <= MaxDelay(poller)

\* C35: no call of stop_service ends before its cleanup: each one goes on
\* from the cancellation of the two tasks to stop_animation, and when it has
\* returned both tasks have ended and the strip has been cleared, also when
\* a task had ended with an error before the call.
C35_StopServiceCompletesCleanup ==
    \A k \in DOMAIN stoppers :
        /\ stoppers[k] # "failed"
        /\ stoppers[k] = "done"
              => (TasksFinished /\ releases > 0 /\ shutdown_event)

\* a step in which start_service creates the two tasks anew
StartStep == Finished(animation_task) /\ animation_task' = "running"

\* a step in which a call of stop_service begins
StopStep ==
    \E k \in DOMAIN stoppers :
        stoppers[k] = "created" /\ stoppers'[k] = "await_animation"

\* C36: for the two StripAlertsApp classes, is_running() is true after
\* every start, also one that follows a stop, false after every stop, and
\* changes in no other step; start_service waits after a start and has
\* returned only when is_running() is false.
C36_IsRunningReflectsLifecycle ==
    /\ [](( app # "main" /\ main_pc = "exited" ) => ~is_running)
    /\ [][ (app # "main" /\ StartStep)
           => (is_running' /\ main_pc' = "wait") ]_vars
    /\ [][ (app # "main" /\ StopStep) => ~is_running' ]_vars
    /\ [][ (app # "main" /\ is_running' # is_running)
           => (StartStep \/ StopStep) ]_vars

(***************************************************************************)
(* Properties of the front-ends (SpecFrontends) and of the mock server     *)
(* (SpecMock).                                                             *)
(***************************************************************************)
\* the services that run: started and not asked to stop
RunningServices == { i \in DOMAIN services : services[i] = "running" }

\* C37: at no time do two services run that a front-end has started, for
\* every order of clicks on its start and stop buttons.
C37_AtMostOneService == Cardinality(RunningServices) <= 1

\* the requests that were answered with event e
Answered(e) == { r \in DOMAIN handlers :
                    handlers[r].pc = "done" /\ handlers[r].event = e }

\* request r leaves get_latest_event
ClearStep(r) == handlers[r].pc = "read" /\ handlers'[r].pc # "read"

\* C38: no event of the mock server is returned to two requests, and a call of
\* get_latest_event erases no event but the one it returns.
C38_EachEventToOneRequest ==
    /\ [](\A e \in 1..generated : Cardinality(Answered(e)) <= 1)
    /\ [][\A r \in DOMAIN handlers :
             ClearStep(r) => latest_event \in { NoRef, handlers[r].event }]_vars

=============================================================================
